---- MODULE Spec2Model ----
(***************************************************************************)
(* Model of tools/abel/validators/spreadsheet_validator.py: the class      *)
(* SpreadsheetValidator, its orchestrating method Validate and the         *)
(* validators it sequences.                                                *)
(*                                                                         *)
(* A row is a function from the column headers it has to cell values       *)
(* (strings).  row[h] with h outside DOMAIN row is Python's KeyError and   *)
(* is modelled as the call raising; row.get(h) yields None.  A validator   *)
(* is an operator that yields [raised, errs]: the list it returns, or,     *)
(* when raised, the errors appended so far.  Python lists are mutable      *)
(* objects, so Validate is computed on a small heap of lists in which      *)
(* self.validation_errors is a reference.                                  *)
(***************************************************************************)
EXTENDS Integers, Sequences, FiniteSets, TLC

VARIABLES
  validation_errors, \* self.validation_errors of the one validator instance
  calls,             \* Validate calls made on the instance since __init__
  method,            \* the operation applied last
  args,              \* the arguments it was applied to
  raised,            \* whether it ended in a lookup failure (KeyError)
  ret,               \* the list it returned (<<>> for Validate / a raise)
  is_valid,          \* Validate's boolean result
  log,               \* what the last Validate call handed to _LogErrors
  trace              \* the validators the last Validate call ran, with
                     \* the list each returned, in execution order

vars == <<validation_errors, calls, method, args, raised, ret, is_valid, log,
          trace>>

----------------------------------------------------------------------------
(* model.constants: table names, column headers, header lists *)

SITES == "Sites"
ENTITIES == "Entities"
ENTITY_FIELDS == "Entity Fields"
STATES == "States"
CONNECTIONS == "Connections"

BUILDING_CODE == "Building Code"
ENTITY_CODE == "Entity Code"
NAMESPACE == "Namespace"
BC_GUID == "Guid"
REPORTING_ENTITY_CODE == "Reporting Entity Code"
REPORTING_ENTITY_FIELD_NAME == "Reporting Entity Field Name"
STANDARD_FIELD_NAME == "Standard Field Name"
SOURCE_ENTITY_CODE == "Source Entity Code"
TARGET_ENTITY_CODE == "Target Entity Code"
FACILITIES_NAMESPACE == "FACILITIES"

REQUIRED_SITE_HEADERS == <<BUILDING_CODE>>
ALL_SITE_HEADERS == <<BUILDING_CODE>>
REQUIRED_ENTITY_HEADERS == <<ENTITY_CODE, NAMESPACE>>
ALL_ENTITY_HEADERS == <<ENTITY_CODE, NAMESPACE, BC_GUID>>
REQUIRED_FIELD_HEADERS ==
  <<ENTITY_CODE, STANDARD_FIELD_NAME, REPORTING_ENTITY_CODE,
    REPORTING_ENTITY_FIELD_NAME>>
ALL_FIELD_HEADERS == REQUIRED_FIELD_HEADERS
REQUIRED_STATE_HEADERS == <<ENTITY_CODE, STANDARD_FIELD_NAME>>
ALL_STATE_HEADERS == REQUIRED_STATE_HEADERS
REQUIRED_CONNECTION_HEADERS == <<SOURCE_ENTITY_CODE, TARGET_ENTITY_CODE>>
ALL_CONNECTION_HEADERS == REQUIRED_CONNECTION_HEADERS

_ROW_START_INDEX == 2

\* Python's None, the value of row.get(h) for an absent key.
None == "<None>"

----------------------------------------------------------------------------
(* Python primitives *)

Range(s) == {s[i] : i \in DOMAIN s}

\* row.get(h)
Get(row, h) == IF h \in DOMAIN row THEN row[h] ELSE None

\* `value is None` in place of `not value`
FalsyIsNone(value) == value = None

\* `not value` for a string cell
Falsy(value) == value = ""

\* Every order in which iterating the set S can yield its elements.
Orders(S) ==
  {p \in [1..Cardinality(S) -> S] : \A i, j \in DOMAIN p : i # j => p[i] # p[j]}

RECURSIVE Concat(_)
Concat(ss) == IF ss = <<>> THEN <<>> ELSE Head(ss) \o Concat(Tail(ss))

----------------------------------------------------------------------------
(* validators.spreadsheet_error: the error value objects *)

SpreadsheetHeaderError(table, header) ==
  [type |-> "SpreadsheetHeaderError", table |-> table, header |-> header]

MissingSpreadsheetValueError(table, row, column, message) ==
  [type |-> "MissingSpreadsheetValueError", table |-> table, row |-> row,
   column |-> column, message |-> message]

DuplicateCodeError(code) ==
  [type |-> "DuplicateCodeError", code |-> code]

CrossSheetDependencyError(source_table, target_table, row, column, cell_value) ==
  [type |-> "CrossSheetDependencyError", source_table |-> source_table,
   target_table |-> target_table, row |-> row, column |-> column,
   cell_value |-> cell_value]

ConnectionDependencyError(row, missing_code, present_code) ==
  [type |-> "ConnectionDependencyError", row |-> row,
   missing_code |-> missing_code, present_code |-> present_code]

\* What a validator call yields.
Returned(errs) == [raised |-> FALSE, errs |-> errs]
Raised(errs) == [raised |-> TRUE, errs |-> errs]

----------------------------------------------------------------------------
(* SpreadsheetValidator._ValidateContents *)

\* enumerate(sheet, start): the number paired with the row at 1-based
\* position i.
Enumerate(start, i) == start + (i - 1)

MustHaveMessage == "entry must have a header value"
MustHaveGuidMessage == "must have a guid"

RECURSIVE ContentsLoop(_, _, _, _, _, _)
ContentsLoop(table, parsed_sheet, col_headers_values, i, j, errs) ==
  IF i > Len(parsed_sheet) THEN Returned(errs)
  ELSE IF j > Len(col_headers_values)
  THEN ContentsLoop(table, parsed_sheet, col_headers_values, i + 1, 1, errs)
  ELSE LET row == parsed_sheet[i]
           header == col_headers_values[j]
           row_number == Enumerate(_ROW_START_INDEX, i)
       IN IF header \notin DOMAIN row THEN Raised(errs)
          ELSE IF Falsy(row[header])
          THEN ContentsLoop(table, parsed_sheet, col_headers_values, i, j + 1,
                 Append(errs, MissingSpreadsheetValueError(
                                table, row_number, header, MustHaveMessage)))
          ELSE ContentsLoop(table, parsed_sheet, col_headers_values, i, j + 1,
                            errs)

\* The list is built in a fresh list bound to self.validation_errors; the
\* caller of this operator applies that rebinding (see CallSelf).
_ValidateContents(table, parsed_sheet, col_headers_values) ==
  ContentsLoop(table, parsed_sheet, col_headers_values, 1, 1, <<>>)

----------------------------------------------------------------------------
(* SpreadsheetValidator._ValidateFieldsAcrossSheets *)

RECURSIVE FieldsLoop(_, _, _, _)
FieldsLoop(fields, entities, i, errs) ==
  IF i > Len(fields) THEN Returned(errs)
  ELSE LET field == fields[i]
           row_num == Enumerate(_ROW_START_INDEX, i)
           field_reporting_entity_code == Get(field, REPORTING_ENTITY_CODE)
           field_entity_code == Get(field, ENTITY_CODE)
           entity_codes == {Get(entities[k], ENTITY_CODE) : k \in DOMAIN entities}
           e1 == IF field_entity_code \notin entity_codes
                 THEN <<CrossSheetDependencyError(ENTITY_FIELDS, ENTITIES,
                          row_num, ENTITY_CODE, field_entity_code)>>
                 ELSE <<>>
           e2 == IF field_reporting_entity_code \notin entity_codes
                 THEN <<CrossSheetDependencyError(ENTITY_FIELDS, ENTITIES,
                          row_num, REPORTING_ENTITY_CODE,
                          field_reporting_entity_code)>>
                 ELSE <<>>
       IN FieldsLoop(fields, entities, i + 1, errs \o e1 \o e2)

_ValidateFieldsAcrossSheets(parsed_spreadsheet) ==
  FieldsLoop(parsed_spreadsheet[ENTITY_FIELDS], parsed_spreadsheet[ENTITIES],
             1, <<>>)

----------------------------------------------------------------------------
(* SpreadsheetValidator._ValidateStatesAcrossSheets *)

\* The body of the loop over fields, lines 221-226, for one field:
\* [raised, n] with n what the field adds to num_dependencies (what it
\* had added when the lookup failed, if raised).
DependenciesOfDeduplicated(field, entity_code, reporting_field_name) ==
  IF \/ ENTITY_CODE \notin DOMAIN field
     \/ REPORTING_ENTITY_CODE \notin DOMAIN field
     \/ entity_code = field[ENTITY_CODE]
          /\ STANDARD_FIELD_NAME \notin DOMAIN field
     \/ entity_code = field[REPORTING_ENTITY_CODE]
          /\ REPORTING_ENTITY_FIELD_NAME \notin DOMAIN field
  THEN [raised |-> TRUE, n |-> 0]
  ELSE [raised |-> FALSE,
        n |-> IF \/ entity_code = field[ENTITY_CODE]
                      /\ field[STANDARD_FIELD_NAME] = reporting_field_name
                 \/ entity_code = field[REPORTING_ENTITY_CODE]
                      /\ field[REPORTING_ENTITY_FIELD_NAME]
                           = reporting_field_name
              THEN 1 ELSE 0]

DependenciesOf(field, entity_code, reporting_field_name) ==
  IF ENTITY_CODE \notin DOMAIN field THEN [raised |-> TRUE, n |-> 0]
  ELSE IF entity_code = field[ENTITY_CODE]
          /\ STANDARD_FIELD_NAME \notin DOMAIN field
  THEN [raised |-> TRUE, n |-> 0]
  ELSE LET a == IF entity_code = field[ENTITY_CODE]
                   /\ field[STANDARD_FIELD_NAME] = reporting_field_name
                THEN 1 ELSE 0
       IN IF REPORTING_ENTITY_CODE \notin DOMAIN field
          THEN [raised |-> TRUE, n |-> a]
          ELSE IF entity_code = field[REPORTING_ENTITY_CODE]
                  /\ REPORTING_ENTITY_FIELD_NAME \notin DOMAIN field
          THEN [raised |-> TRUE, n |-> a]
          ELSE LET b == IF entity_code = field[REPORTING_ENTITY_CODE]
                           /\ field[REPORTING_ENTITY_FIELD_NAME]
                                = reporting_field_name
                        THEN 1 ELSE 0
               IN [raised |-> FALSE, n |-> a + b]

\* for field in fields: [raised, n] with n the value of num_dependencies.
RECURSIVE NumDependencies(_, _, _, _, _)
NumDependencies(fields, entity_code, reporting_field_name, k, n) ==
  IF k > Len(fields) THEN [raised |-> FALSE, n |-> n]
  ELSE LET d == DependenciesOf(fields[k], entity_code, reporting_field_name)
       IN IF d.raised THEN [raised |-> TRUE, n |-> n + d.n]
          ELSE NumDependencies(fields, entity_code, reporting_field_name,
                               k + 1, n + d.n)

RECURSIVE StatesLoop(_, _, _, _)
StatesLoop(states, fields, i, errs) ==
  IF i > Len(states) THEN Returned(errs)
  ELSE LET state == states[i]
           row_num == Enumerate(_ROW_START_INDEX, i)
           reporting_field_name == Get(state, STANDARD_FIELD_NAME)
           entity_code == Get(state, ENTITY_CODE)
           num_dependencies ==
             NumDependencies(fields, entity_code, reporting_field_name, 1, 0)
       IN IF num_dependencies.raised THEN Raised(errs)
          ELSE IF num_dependencies.n # 1
          THEN StatesLoop(states, fields, i + 1,
                 Append(errs, CrossSheetDependencyError(STATES, ENTITY_FIELDS,
                                row_num, STANDARD_FIELD_NAME,
                                reporting_field_name)))
          ELSE StatesLoop(states, fields, i + 1, errs)

_ValidateStatesAcrossSheets(parsed_spreadsheet) ==
  StatesLoop(parsed_spreadsheet[STATES], parsed_spreadsheet[ENTITY_FIELDS],
             1, <<>>)

----------------------------------------------------------------------------
(* SpreadsheetValidator._ValidateHeaders *)

\* The loop over the rows: header_difference after rows i.. have been
\* visited.
RECURSIVE HeaderDifference(_, _, _, _, _)
HeaderDifference(parsed_sheet, column_headers, i, seen, header_difference) ==
  IF i > Len(parsed_sheet) THEN header_difference
  ELSE LET row == parsed_sheet[i]
           parsed == seen \cup DOMAIN row
       IN HeaderDifference(parsed_sheet, column_headers, i + 1, parsed,
            header_difference \cup (Range(column_headers) \ parsed))

\* The lists the call can return: header_difference is a set of strings,
\* iterated in an order the language does not fix.
_ValidateHeaders(table, parsed_sheet, column_headers) ==
  LET header_difference ==
        HeaderDifference(parsed_sheet, column_headers, 1, {}, {})
  IN {[i \in DOMAIN p |-> SpreadsheetHeaderError(table, p[i])] :
        p \in Orders(header_difference)}

----------------------------------------------------------------------------
(* SpreadsheetValidator._ValidateConnections *)

RECURSIVE ConnectionsLoop(_, _, _, _)
ConnectionsLoop(connections_sheet, codes, i, errs) ==
  IF i > Len(connections_sheet) THEN Returned(errs)
  ELSE LET connection == connections_sheet[i]
           row_number == Enumerate(_ROW_START_INDEX, i)
       IN IF SOURCE_ENTITY_CODE \notin DOMAIN connection THEN Raised(errs)
          ELSE IF TARGET_ENTITY_CODE \notin DOMAIN connection
          THEN Raised(errs)
          ELSE LET e1 == IF connection[SOURCE_ENTITY_CODE] \notin codes
                         THEN <<ConnectionDependencyError(row_number,
                                  connection[SOURCE_ENTITY_CODE],
                                  connection[TARGET_ENTITY_CODE])>>
                         ELSE <<>>
                   e2 == IF connection[TARGET_ENTITY_CODE] \notin codes
                         THEN <<ConnectionDependencyError(row_number,
                                  connection[SOURCE_ENTITY_CODE],
                                  connection[TARGET_ENTITY_CODE])>>
                         ELSE <<>>
               IN ConnectionsLoop(connections_sheet, codes, i + 1,
                                  errs \o e1 \o e2)

_ValidateConnections(parsed_spreadsheet) ==
  LET connections_sheet == parsed_spreadsheet[CONNECTIONS]
      entities_sheet == parsed_spreadsheet[ENTITIES]
      sites_sheet == parsed_spreadsheet[SITES]
  IN IF \/ \E k \in DOMAIN entities_sheet :
              ENTITY_CODE \notin DOMAIN entities_sheet[k]
        \/ \E k \in DOMAIN sites_sheet :
              BUILDING_CODE \notin DOMAIN sites_sheet[k]
     THEN Raised(<<>>)
     ELSE ConnectionsLoop(connections_sheet,
            {entities_sheet[k][ENTITY_CODE] : k \in DOMAIN entities_sheet}
              \cup {sites_sheet[k][BUILDING_CODE] : k \in DOMAIN sites_sheet},
            1, <<>>)

----------------------------------------------------------------------------
(* SpreadsheetValidator.ValidateFacilitiesGuids *)

RECURSIVE GuidsLoop(_, _, _)
GuidsLoop(sheet, i, errs) ==
  IF i > Len(sheet) THEN Returned(errs)
  ELSE LET row == sheet[i]
           row_number == Enumerate(0, i)
       IN IF BC_GUID \notin DOMAIN row THEN Raised(errs)
          ELSE IF ~Falsy(row[BC_GUID]) THEN GuidsLoop(sheet, i + 1, errs)
          ELSE IF NAMESPACE \notin DOMAIN row THEN Raised(errs)
          ELSE IF row[NAMESPACE] # FACILITIES_NAMESPACE
          THEN GuidsLoop(sheet, i + 1, errs)
          ELSE IF ENTITY_CODE \notin DOMAIN row THEN Raised(errs)
          ELSE GuidsLoop(sheet, i + 1,
                 Append(errs, MissingSpreadsheetValueError(
                                ENTITIES, row_number, BC_GUID,
                                MustHaveGuidMessage)))

ValidateFacilitiesGuids(sheet) == GuidsLoop(sheet, 1, <<>>)

----------------------------------------------------------------------------
(* SpreadsheetValidator._ValidateEntityCodes *)

\* The codes row by row, in place of the distinct codes.
CounterKeysPerRow(list_of_codes, seen) == list_of_codes

\* collections.Counter(list_of_codes).items(): the distinct codes in the
\* order of their first occurrence, each with its count.
RECURSIVE CounterKeys(_, _)
CounterKeys(list_of_codes, seen) ==
  IF list_of_codes = <<>> THEN <<>>
  ELSE IF Head(list_of_codes) \in seen
  THEN CounterKeys(Tail(list_of_codes), seen)
  ELSE <<Head(list_of_codes)>>
         \o CounterKeys(Tail(list_of_codes), seen \cup {Head(list_of_codes)})

CounterCount(list_of_codes, code) ==
  Cardinality({k \in DOMAIN list_of_codes : list_of_codes[k] = code})

_ValidateEntityCodes(sheet) ==
  IF \E k \in DOMAIN sheet : ENTITY_CODE \notin DOMAIN sheet[k]
  THEN Raised(<<>>)
  ELSE LET list_of_codes == [k \in DOMAIN sheet |-> sheet[k][ENTITY_CODE]]
           duplicates ==
             SelectSeq(CounterKeys(list_of_codes, {}),
                       LAMBDA code : CounterCount(list_of_codes, code) > 1)
       IN Returned([k \in DOMAIN duplicates |->
                      DuplicateCodeError(duplicates[k])])

----------------------------------------------------------------------------
(* SpreadsheetValidator.Validate, on a heap of list objects.               *)
(* A machine m is [heap, self, ret, raised, trace]: heap is the sequence   *)
(* of list objects, a reference is an index into it, self is the list      *)
(* self.validation_errors refers to, ret is the list the last call         *)
(* returned, raised says that a KeyError is propagating, and trace records *)
(* the calls that returned.                                                *)

\* A validator that builds its result in a local list and returns it.
CallLocal(m, fn, r) ==
  IF r.raised THEN [m EXCEPT !.raised = TRUE]
  ELSE [m EXCEPT !.heap = Append(@, r.errs),
                 !.ret = Len(m.heap) + 1,
                 !.trace = Append(@, [fn |-> fn, errs |-> r.errs])]

\* A validator that starts with self.validation_errors = [], appends to
\* that list and returns it.
CallSelf(m, fn, r) ==
  IF r.raised
  THEN [m EXCEPT !.heap = Append(@, r.errs),
                 !.self = Len(m.heap) + 1,
                 !.raised = TRUE]
  ELSE [m EXCEPT !.heap = Append(@, r.errs),
                 !.self = Len(m.heap) + 1,
                 !.ret = Len(m.heap) + 1,
                 !.trace = Append(@, [fn |-> fn, errs |-> r.errs])]

\* The statement with the attribute loaded after the call has returned.
AugAssignLoadAfterCall(m, c) ==
  IF c.raised THEN c
  ELSE [c EXCEPT !.heap[c.self] = @ \o c.heap[c.ret], !.self = c.self]

\* self.validation_errors += <call>, from the machine m before the
\* statement and the machine c after the call: the attribute is loaded
\* before the call is made, the loaded list is extended in place and the
\* attribute is bound to it again.
AugAssign(m, c) ==
  IF c.raised THEN c
  ELSE [c EXCEPT !.heap[m.self] = @ \o c.heap[c.ret], !.self = m.self]

validation_parameters(parsed_spreadsheet) ==
  << <<SITES, parsed_spreadsheet[SITES], REQUIRED_SITE_HEADERS,
       ALL_SITE_HEADERS>>,
     <<ENTITIES, parsed_spreadsheet[ENTITIES], REQUIRED_ENTITY_HEADERS,
       ALL_ENTITY_HEADERS>>,
     <<ENTITY_FIELDS, parsed_spreadsheet[ENTITY_FIELDS],
       REQUIRED_FIELD_HEADERS, ALL_FIELD_HEADERS>>,
     <<STATES, parsed_spreadsheet[STATES], REQUIRED_STATE_HEADERS,
       ALL_STATE_HEADERS>>,
     <<CONNECTIONS, parsed_spreadsheet[CONNECTIONS],
       REQUIRED_CONNECTION_HEADERS, ALL_CONNECTION_HEADERS>> >>

\* The choices of the lists the five _ValidateHeaders calls return.
HeaderChoices(parsed_spreadsheet) ==
  LET vp == validation_parameters(parsed_spreadsheet)
  IN {<<h1, h2, h3, h4, h5>> :
        h1 \in _ValidateHeaders(vp[1][1], vp[1][2], vp[1][4]),
        h2 \in _ValidateHeaders(vp[2][1], vp[2][2], vp[2][4]),
        h3 \in _ValidateHeaders(vp[3][1], vp[3][2], vp[3][4]),
        h4 \in _ValidateHeaders(vp[4][1], vp[4][2], vp[4][4]),
        h5 \in _ValidateHeaders(vp[5][1], vp[5][2], vp[5][4])}

\* for parameter_list in validation_parameters:
\*   self.validation_errors += self._ValidateHeaders(...)
RECURSIVE HeadersLoop(_, _, _)
HeadersLoop(m, hs, k) ==
  IF k > Len(hs) \/ m.raised THEN m
  ELSE HeadersLoop(
         AugAssign(m, CallLocal(m, "_ValidateHeaders", Returned(hs[k]))),
         hs, k + 1)

\* for parameter_list in validation_parameters:
\*   self.validation_errors += self._ValidateContents(...)
RECURSIVE ContentsPhaseLoop(_, _, _)
ContentsPhaseLoop(m, vp, k) ==
  IF k > Len(vp) \/ m.raised THEN m
  ELSE ContentsPhaseLoop(
         AugAssign(m, CallSelf(m, "_ValidateContents",
                        _ValidateContents(vp[k][1], vp[k][2], vp[k][3]))),
         vp, k + 1)

\* One run of Validate from self.validation_errors = ve0, with hs the lists
\* the _ValidateHeaders calls return.
ValidateRun(ve0, parsed_spreadsheet, hs) ==
  LET vp == validation_parameters(parsed_spreadsheet)
      entities_sheet == parsed_spreadsheet[ENTITIES]
      m0 == [heap |-> <<ve0>>, self |-> 1, ret |-> 0, raised |-> FALSE,
             trace |-> <<>>]
      m1 == AugAssign(m0, CallLocal(m0, "_ValidateEntityCodes",
                                    _ValidateEntityCodes(entities_sheet)))
      m2 == IF m1.raised THEN m1
            ELSE AugAssign(m1, CallLocal(m1, "ValidateFacilitiesGuids",
                                   ValidateFacilitiesGuids(entities_sheet)))
      m3 == HeadersLoop(m2, hs, 1)
      m4 == ContentsPhaseLoop(m3, vp, 1)
      m5 == IF m4.raised THEN m4
            ELSE AugAssign(m4, CallSelf(m4, "_ValidateFieldsAcrossSheets",
                                 _ValidateFieldsAcrossSheets(parsed_spreadsheet)))
      m6 == IF m5.raised THEN m5
            ELSE AugAssign(m5, CallLocal(m5, "_ValidateStatesAcrossSheets",
                                 _ValidateStatesAcrossSheets(parsed_spreadsheet)))
      m7 == IF m6.raised THEN m6
            ELSE AugAssign(m6, CallLocal(m6, "_ValidateConnections",
                                 _ValidateConnections(parsed_spreadsheet)))
      m == IF ~m3.raised /\ m3.heap[m3.self] = <<>> THEN m7 ELSE m3
      errors == m.heap[m.self]
  IN [validation_errors |-> errors,
      raised |-> m.raised,
      is_valid |-> ~m.raised /\ errors = <<>>,
      log |-> IF ~m.raised /\ errors # <<>> THEN errors ELSE <<>>,
      trace |-> m.trace]

\* Every outcome Validate can have.
Validate(ve0, parsed_spreadsheet) ==
  {ValidateRun(ve0, parsed_spreadsheet, hs) :
     hs \in HeaderChoices(parsed_spreadsheet)}

----------------------------------------------------------------------------
(* Inputs *)

MaxCalls == 2
MaxEntityRows == 2
MaxSheetRows == 1

\* Marks, in a choice of cell values, that the row lacks the key.
Absent == "<absent>"

\* The rows whose cell under header h is one of cells[h], or is missing
\* where cells[h] holds Absent.
RowsOver(cells) ==
  LET all == UNION {cells[h] : h \in DOMAIN cells}
      picks == {f \in [DOMAIN cells -> all] :
                  \A h \in DOMAIN cells : f[h] \in cells[h]}
  IN {[h \in {k \in DOMAIN f : f[k] # Absent} |-> f[h]] : f \in picks}

\* Rows of the sheets given to Validate.
SiteRows == RowsOver((BUILDING_CODE :> {"S", "", Absent}))

EntityRows ==
  {r \in RowsOver((ENTITY_CODE :> {"A", "B"})
                    @@ (NAMESPACE :> {FACILITIES_NAMESPACE, Absent})
                    @@ (BC_GUID :> {"g", ""})) :
     \/ r[ENTITY_CODE] = "A" /\ NAMESPACE \in DOMAIN r
     \/ r[ENTITY_CODE] = "B" /\ NAMESPACE \notin DOMAIN r /\ r[BC_GUID] = "g"}

FieldRows ==
  RowsOver((ENTITY_CODE :> {"A"}) @@ (STANDARD_FIELD_NAME :> {"f"})
             @@ (REPORTING_ENTITY_CODE :> {"A"})
             @@ (REPORTING_ENTITY_FIELD_NAME :> {"rf"}))

StateRows ==
  RowsOver((ENTITY_CODE :> {"A"}) @@ (STANDARD_FIELD_NAME :> {"f"}))

ConnectionRows ==
  {r \in RowsOver((SOURCE_ENTITY_CODE :> {"S", Absent})
                    @@ (TARGET_ENTITY_CODE :> {"A", Absent})) :
     DOMAIN r = {} \/ DOMAIN r = {SOURCE_ENTITY_CODE, TARGET_ENTITY_CODE}}

\* The sheets of at most n rows drawn from rows, by row count.
SheetsOfLength(rows, k) == [1..k -> rows]

----------------------------------------------------------------------------
(* The validator instance and the calls made on it *)

\* SpreadsheetValidator.__init__
Init ==
  /\ validation_errors = <<>>
  /\ calls = 0
  /\ method = "__init__"
  /\ args = <<>>
  /\ raised = FALSE
  /\ ret = <<>>
  /\ is_valid = TRUE
  /\ log = <<>>
  /\ trace = <<>>

\* A new instance replaces the one in use.
Construct ==
  /\ method # "__init__"
  /\ validation_errors' = <<>>
  /\ calls' = 0
  /\ method' = "__init__"
  /\ args' = <<>>
  /\ raised' = FALSE
  /\ ret' = <<>>
  /\ is_valid' = TRUE
  /\ log' = <<>>
  /\ trace' = <<>>

\* validator.Validate(parsed_spreadsheet), at most limit times an instance
ValidateCall(limit) ==
  /\ calls < limit
  /\ \E ks, kf, kt, kc \in 0..MaxSheetRows, ke \in 0..MaxEntityRows :
       \E s \in SheetsOfLength(SiteRows, ks),
          e \in SheetsOfLength(EntityRows, ke),
          f \in SheetsOfLength(FieldRows, kf),
          t \in SheetsOfLength(StateRows, kt),
          c \in SheetsOfLength(ConnectionRows, kc) :
         LET parsed_spreadsheet ==
               (SITES :> s) @@ (ENTITIES :> e) @@ (ENTITY_FIELDS :> f)
                 @@ (STATES :> t) @@ (CONNECTIONS :> c)
         IN \E o \in Validate(validation_errors, parsed_spreadsheet) :
              /\ validation_errors' = o.validation_errors
              /\ calls' = calls + 1
              /\ method' = "Validate"
              /\ args' = parsed_spreadsheet
              /\ raised' = o.raised
              /\ ret' = <<>>
              /\ is_valid' = o.is_valid
              /\ log' = o.log
              /\ trace' = o.trace

Next == ValidateCall(MaxCalls) \/ Construct

Spec == Init /\ [][Next]_vars

NextFresh == ValidateCall(1) \/ Construct

SpecFresh == Init /\ [][NextFresh]_vars

----------------------------------------------------------------------------
(* Direct calls of one validator on a new instance: the arguments are      *)
(* drawn when the instance is made, the call applies the validator.        *)

MaxHeaderRows == 2
MaxContentRows == 2
MaxCodeRows == 6
MaxGuidRows == 2
MaxFieldRows == 2
MaxStateRows == 3
MaxConnectionRows == 2

InitWith(input) ==
  /\ validation_errors = <<>>
  /\ calls = 0
  /\ method = "__init__"
  /\ args = input
  /\ raised = FALSE
  /\ ret = <<>>
  /\ is_valid = TRUE
  /\ log = <<>>
  /\ trace = <<>>

\* The call of a validator that leaves the instance alone.
Apply(fn, r) ==
  /\ method = "__init__"
  /\ method' = fn
  /\ raised' = r.raised
  /\ ret' = IF r.raised THEN <<>> ELSE r.errs
  /\ UNCHANGED <<validation_errors, calls, args, is_valid, log, trace>>

\* The five parameter lists of Validate: table, sheet, required headers,
\* all headers.
TableParameters ==
  Range(validation_parameters(
          [t \in {SITES, ENTITIES, ENTITY_FIELDS, STATES, CONNECTIONS} |->
             <<>>]))

\* _ValidateHeaders(table, parsed_sheet, column_headers)
InitHeaders ==
  \E vp \in TableParameters : \E k \in 0..MaxHeaderRows :
    \E sheet \in SheetsOfLength(
                    RowsOver([h \in Range(vp[4]) |-> {"x", Absent}]), k) :
      InitWith([table |-> vp[1], parsed_sheet |-> sheet,
                column_headers |-> vp[4]])

Call_ValidateHeaders ==
  \E errs \in _ValidateHeaders(args.table, args.parsed_sheet,
                               args.column_headers) :
    Apply("_ValidateHeaders", Returned(errs))

SpecHeaders == InitHeaders /\ [][Call_ValidateHeaders]_vars

\* _ValidateContents(table, parsed_sheet, col_headers_values)
InitContents ==
  \E vp \in TableParameters : \E k \in 0..MaxContentRows :
    \E sheet \in SheetsOfLength(
                    RowsOver([h \in Range(vp[3]) |-> {"v", "", Absent}]), k) :
      InitWith([table |-> vp[1], parsed_sheet |-> sheet,
                col_headers_values |-> vp[3]])

Call_ValidateContents ==
  LET r == _ValidateContents(args.table, args.parsed_sheet,
                             args.col_headers_values)
  IN /\ method = "__init__"
     /\ method' = "_ValidateContents"
     /\ raised' = r.raised
     /\ ret' = IF r.raised THEN <<>> ELSE r.errs
     /\ validation_errors' = r.errs
     /\ UNCHANGED <<calls, args, is_valid, log, trace>>

SpecContents == InitContents /\ [][Call_ValidateContents]_vars

\* _ValidateEntityCodes(sheet)
CodeRows == RowsOver((ENTITY_CODE :> {"A", "B", "C", Absent}))

InitEntityCodes ==
  \E k \in 0..MaxCodeRows : \E sheet \in SheetsOfLength(CodeRows, k) :
    InitWith([sheet |-> sheet])

Call_ValidateEntityCodes ==
  Apply("_ValidateEntityCodes", _ValidateEntityCodes(args.sheet))

SpecEntityCodes == InitEntityCodes /\ [][Call_ValidateEntityCodes]_vars

\* ValidateFacilitiesGuids(sheet)
GuidRows ==
  RowsOver((ENTITY_CODE :> {"A", Absent})
             @@ (NAMESPACE :> {FACILITIES_NAMESPACE, "HVAC", Absent})
             @@ (BC_GUID :> {"g", "", Absent}))

InitGuids ==
  \E k \in 0..MaxGuidRows : \E sheet \in SheetsOfLength(GuidRows, k) :
    InitWith([sheet |-> sheet])

CallValidateFacilitiesGuids ==
  Apply("ValidateFacilitiesGuids", ValidateFacilitiesGuids(args.sheet))

SpecGuids == InitGuids /\ [][CallValidateFacilitiesGuids]_vars

\* _ValidateStatesAcrossSheets(parsed_spreadsheet)
StateCallFieldRows ==
  {r \in RowsOver((ENTITY_CODE :> {"A", "B", Absent})
                    @@ (STANDARD_FIELD_NAME :> {"f", "g", Absent})
                    @@ (REPORTING_ENTITY_CODE :> {"A", "B", Absent})
                    @@ (REPORTING_ENTITY_FIELD_NAME :> {"f", Absent})) :
     Cardinality(DOMAIN r) >= 3}

StateCallStateRows ==
  RowsOver((ENTITY_CODE :> {"A"}) @@ (STANDARD_FIELD_NAME :> {"f", "g", Absent}))

InitStates ==
  \E kt \in 0..MaxStateRows, kf \in 0..MaxFieldRows :
    \E t \in SheetsOfLength(StateCallStateRows, kt),
       f \in SheetsOfLength(StateCallFieldRows, kf) :
      InitWith([parsed_spreadsheet |-> (STATES :> t) @@ (ENTITY_FIELDS :> f)])

Call_ValidateStatesAcrossSheets ==
  Apply("_ValidateStatesAcrossSheets",
        _ValidateStatesAcrossSheets(args.parsed_spreadsheet))

SpecStates == InitStates /\ [][Call_ValidateStatesAcrossSheets]_vars

\* _ValidateConnections(parsed_spreadsheet)
ConnectionCallRows ==
  RowsOver((SOURCE_ENTITY_CODE :> {"S", "Z", Absent})
             @@ (TARGET_ENTITY_CODE :> {"A", "Y", Absent}))

InitConnections ==
  \E ks, ke \in 0..1, kc \in 0..MaxConnectionRows :
    \E s \in SheetsOfLength(RowsOver((BUILDING_CODE :> {"S", Absent})), ks),
       e \in SheetsOfLength(RowsOver((ENTITY_CODE :> {"A", Absent})), ke),
       c \in SheetsOfLength(ConnectionCallRows, kc) :
      InitWith([parsed_spreadsheet |->
                  (SITES :> s) @@ (ENTITIES :> e) @@ (CONNECTIONS :> c)])

Call_ValidateConnections ==
  Apply("_ValidateConnections",
        _ValidateConnections(args.parsed_spreadsheet))

SpecConnections == InitConnections /\ [][Call_ValidateConnections]_vars

----------------------------------------------------------------------------
(* Properties *)

\* The number of entries of the list errs that satisfy Test.
CountIn(errs, Test(_)) == Cardinality({k \in DOMAIN errs : Test(errs[k])})

\* The validators of the structural phase, and those of the content phase.
StructuralValidators ==
  {"_ValidateEntityCodes", "ValidateFacilitiesGuids", "_ValidateHeaders"}

StructuralErrors ==
  Concat([k \in DOMAIN trace |->
            IF trace[k].fn \in StructuralValidators THEN trace[k].errs
            ELSE <<>>])

\* An error only _ValidateContents or a cross-sheet validator makes.
IsContentPhaseError(e) ==
  \/ e.type \in {"CrossSheetDependencyError", "ConnectionDependencyError"}
  \/ e.type = "MissingSpreadsheetValueError" /\ e.message = MustHaveMessage

\* C1: whenever the structural phase of a Validate call reports an error,
\* no content or cross-sheet validator runs, Validate returns false, and the
\* logged list holds no error made by a content or cross-sheet validator.
C1_ContentPhaseGated ==
  (method = "Validate" /\ ~raised /\ StructuralErrors # <<>>) =>
    /\ \A k \in DOMAIN trace : trace[k].fn \in StructuralValidators
    /\ is_valid = FALSE
    /\ \A k \in DOMAIN log : ~IsContentPhaseError(log[k])

\* C2: every Validate call, whatever calls the instance has served before,
\* ends as a call on a newly constructed validator with the same input can
\* end: same lookup failure or same boolean, same logged errors.
C2_EveryCallStartsEmpty ==
  method = "Validate" =>
    \E o \in Validate(<<>>, args) :
      o.raised = raised /\ o.is_valid = is_valid /\ o.log = log

\* C3: _ValidateHeaders returns exactly one SpreadsheetHeaderError for each
\* header of column_headers that is a key of no row, and none for a header
\* that is a key of at least one row, for every row count.
C3_HeadersLenientUnion ==
  method = "_ValidateHeaders" =>
    LET present ==
          UNION {DOMAIN args.parsed_sheet[k] : k \in DOMAIN args.parsed_sheet}
    IN /\ \A h \in Range(args.column_headers) :
            CountIn(ret, LAMBDA e :
                      e = SpreadsheetHeaderError(args.table, h))
              = IF h \in present THEN 0 ELSE 1
       /\ Len(ret) = Cardinality(Range(args.column_headers) \ present)

\* The rows ValidateFacilitiesGuids is to report: namespace Facilities,
\* identifier cell empty.
GuidOffenders(sheet) ==
  {i \in DOMAIN sheet :
     Get(sheet[i], NAMESPACE) = FACILITIES_NAMESPACE
       /\ Get(sheet[i], BC_GUID) = ""}

\* C4: an error that carries a row index reports the 0-based position of
\* its row plus 2; stated for the errors of ValidateFacilitiesGuids, each
\* of which is to name a row it reports.
C4_RowIndexIsPositionPlusTwo ==
  (method = "ValidateFacilitiesGuids" /\ ~raised) =>
    \A k \in DOMAIN ret :
      \E i \in GuidOffenders(args.sheet) : ret[k].row = (i - 1) + 2

\* C5: _ValidateConnections yields, for each Connections row and each of
\* its two sides, exactly one ConnectionDependencyError with missing_code
\* the code of that side and present_code the code of the other side when
\* the side's code is in neither Entities nor Sites, and none otherwise.
C5_ConnectionSidesIndependent ==
  (method = "_ValidateConnections" /\ ~raised) =>
    LET ps == args.parsed_spreadsheet
        codes == {ps[ENTITIES][k][ENTITY_CODE] : k \in DOMAIN ps[ENTITIES]}
                   \cup {ps[SITES][k][BUILDING_CODE] : k \in DOMAIN ps[SITES]}
        sides == {<<SOURCE_ENTITY_CODE, TARGET_ENTITY_CODE>>,
                  <<TARGET_ENTITY_CODE, SOURCE_ENTITY_CODE>>}
    IN /\ \A i \in DOMAIN ps[CONNECTIONS] : \A side \in sides :
            CountIn(ret, LAMBDA e :
                      e = ConnectionDependencyError(
                            (i - 1) + 2, ps[CONNECTIONS][i][side[1]],
                            ps[CONNECTIONS][i][side[2]]))
              = IF ps[CONNECTIONS][i][side[1]] \in codes THEN 0 ELSE 1
       /\ Len(ret) =
            Cardinality({<<i, side>> \in (DOMAIN ps[CONNECTIONS]) \X sides :
                           ps[CONNECTIONS][i][side[1]] \notin codes})

\* N of claim C6 for the States row at position i: the EntityFields rows
\* that match it by entity code and standard field name, plus those that
\* match it by reporting entity code and reporting field name.
MatchCount(ps, i) ==
  LET state == ps[STATES][i]
      fields == ps[ENTITY_FIELDS]
  IN Cardinality({k \in DOMAIN fields :
                    /\ Get(fields[k], ENTITY_CODE) = Get(state, ENTITY_CODE)
                    /\ Get(fields[k], STANDARD_FIELD_NAME)
                         = Get(state, STANDARD_FIELD_NAME)})
       + Cardinality({k \in DOMAIN fields :
                    /\ Get(fields[k], REPORTING_ENTITY_CODE)
                         = Get(state, ENTITY_CODE)
                    /\ Get(fields[k], REPORTING_ENTITY_FIELD_NAME)
                         = Get(state, STANDARD_FIELD_NAME)})

ContentPairs ==
  (DOMAIN args.parsed_sheet) \X Range(args.col_headers_values)

\* C7, as amended: _ValidateContents fails with a lookup failure exactly
\* when some row lacks a key of required_headers; otherwise it returns one
\* MissingSpreadsheetValueError for each (row, header) pair whose cell is
\* the empty string, none for a pair whose cell is non-empty, and nothing
\* else.
C7_ContentsEmptyCells ==
  method = "_ValidateContents" =>
    /\ raised <=> \E p \in ContentPairs : p[2] \notin DOMAIN args.parsed_sheet[p[1]]
    /\ ~raised =>
         /\ \A p \in ContentPairs :
              CountIn(ret, LAMBDA e :
                        e = MissingSpreadsheetValueError(
                              args.table, (p[1] - 1) + 2, p[2],
                              MustHaveMessage))
                = IF args.parsed_sheet[p[1]][p[2]] = "" THEN 1 ELSE 0
         /\ Len(ret) = Cardinality({p \in ContentPairs :
                                      args.parsed_sheet[p[1]][p[2]] = ""})

\* C7, its case: a returned list with an error for an empty cell of the
\* second row, beside a non-empty cell.
C7_Witness ==
  /\ method = "_ValidateContents" /\ ~raised
  /\ Len(args.parsed_sheet) = 2
  /\ \E h \in Range(args.col_headers_values) : args.parsed_sheet[2][h] = ""
  /\ \E h \in Range(args.col_headers_values) : args.parsed_sheet[1][h] # ""
  /\ ret # <<>>

\* C7, as claimed: the call completes for every input, and returns one
\* MissingSpreadsheetValueError for each pair whose cell is empty or whose
\* key is absent, none for a pair whose cell is non-empty.
C7_ContentsEmptyOrAbsent ==
  method = "_ValidateContents" =>
    /\ ~raised
    /\ \A p \in ContentPairs :
         CountIn(ret, LAMBDA e :
                   e = MissingSpreadsheetValueError(
                         args.table, (p[1] - 1) + 2, p[2], MustHaveMessage))
           = IF Get(args.parsed_sheet[p[1]], p[2]) \in {"", None}
             THEN 1 ELSE 0

\* C8: ValidateFacilitiesGuids fails with a lookup failure for any sheet
\* with a row that lacks the namespace key or the identifier key, and
\* otherwise returns one MissingSpreadsheetValueError for exactly the rows
\* with namespace Facilities and an empty identifier cell.
C8_GuidsFailLoudly ==
  method = "ValidateFacilitiesGuids" =>
    /\ (\E i \in DOMAIN args.sheet :
          {NAMESPACE, BC_GUID} \ DOMAIN args.sheet[i] # {}) => raised
    /\ ~raised => Len(ret) = Cardinality(GuidOffenders(args.sheet))
    /\ \A k \in DOMAIN ret :
         /\ ret[k].type = "MissingSpreadsheetValueError"
         /\ ret[k].table = ENTITIES
         /\ ret[k].column = BC_GUID

\* The entity codes of a _ValidateEntityCodes call, row by row.
CodesOf(sheet) == [k \in DOMAIN sheet |-> sheet[k][ENTITY_CODE]]

\* C9: a returning _ValidateEntityCodes call yields exactly one
\* DuplicateCodeError for each distinct entity code that occurs in more
\* than one row, none for a code that occurs once, and nothing else.
C9_OneErrorPerDuplicateCode ==
  (method = "_ValidateEntityCodes" /\ ~raised) =>
    LET codes == CodesOf(args.sheet)
        occurs(c) == Cardinality({k \in DOMAIN codes : codes[k] = c})
    IN /\ \A c \in Range(codes) :
            CountIn(ret, LAMBDA e : e = DuplicateCodeError(c))
              = IF occurs(c) > 1 THEN 1 ELSE 0
       /\ Len(ret) = Cardinality({c \in Range(codes) : occurs(c) > 1})

\* C9, its case: codes [A, B, A, C, B, B] give two errors.
C9_Witness ==
  /\ method = "_ValidateEntityCodes" /\ ~raised
  /\ \A k \in DOMAIN args.sheet : ENTITY_CODE \in DOMAIN args.sheet[k]
  /\ CodesOf(args.sheet) = <<"A", "B", "A", "C", "B", "B">>
  /\ Len(ret) = 2

\* The validators a Validate call runs, in order: those of the structural
\* phase, then those of the content phase.
StructuralOrder ==
  <<"_ValidateEntityCodes", "ValidateFacilitiesGuids", "_ValidateHeaders",
    "_ValidateHeaders", "_ValidateHeaders", "_ValidateHeaders",
    "_ValidateHeaders">>

ContentOrder ==
  <<"_ValidateContents", "_ValidateContents", "_ValidateContents",
    "_ValidateContents", "_ValidateContents", "_ValidateFieldsAcrossSheets",
    "_ValidateStatesAcrossSheets", "_ValidateConnections">>

\* What the k-th validator of StructuralOrder \o ContentOrder can return on
\* the arguments of the Validate call.
ReturnsOf(k) ==
  LET vp == validation_parameters(args) IN
  CASE k = 1 -> {_ValidateEntityCodes(args[ENTITIES]).errs}
    [] k = 2 -> {ValidateFacilitiesGuids(args[ENTITIES]).errs}
    [] k \in 3..7 -> _ValidateHeaders(vp[k - 2][1], vp[k - 2][2], vp[k - 2][4])
    [] k \in 8..12 ->
         {_ValidateContents(vp[k - 7][1], vp[k - 7][2], vp[k - 7][3]).errs}
    [] k = 13 -> {_ValidateFieldsAcrossSheets(args).errs}
    [] k = 14 -> {_ValidateStatesAcrossSheets(args).errs}
    [] k = 15 -> {_ValidateConnections(args).errs}

\* C10: a returning Validate call on a new validator has run the
\* structural validators, and the content validators after them if and
\* only if the former returned no error; the list that decides the result
\* and is logged is the concatenation, in that order, of the lists they
\* returned.
C10_ErrorsAreConcatenation ==
  (method = "Validate" /\ calls = 1 /\ ~raised) =>
    LET order == IF StructuralErrors = <<>>
                 THEN StructuralOrder \o ContentOrder ELSE StructuralOrder
        all == Concat([k \in DOMAIN trace |-> trace[k].errs])
    IN /\ [k \in DOMAIN trace |-> trace[k].fn] = order
       /\ \A k \in DOMAIN trace : trace[k].errs \in ReturnsOf(k)
       /\ validation_errors = all
       /\ log = all
       /\ is_valid = (all = <<>>)

\* C10, its case: the content phase ran, _ValidateContents returned an
\* error for Sites, and later validators returned errors too.
C10_Witness ==
  /\ method = "Validate" /\ calls = 1 /\ ~raised
  /\ Len(trace) = 15
  /\ trace[8].errs # <<>>
  /\ trace[13].errs # <<>>
  /\ trace[15].errs # <<>>
  /\ Len(log) >= 3

====
